---- MODULE Spec2Model ----
(***************************************************************************)
(* Model of package sourceerror (github.com/mwat56/sourceerror).           *)
(*                                                                         *)
(* The package state is the two toggles NODEBUG and NOSTACK and the        *)
(* ErrSource values allocated by New().  Go strings and byte slices are    *)
(* sequences of one-character strings, so that the formatting done by      *)
(* Error(), primStr() and String() is computed character by character.     *)
(* An error value is Nil, an error made by errors.New() (kind "base"), or  *)
(* a pointer to an allocated ErrSource (kind "ptr", ref = its address,     *)
(* the index into heap).                                                   *)
(***************************************************************************)
EXTENDS Integers, Sequences, FiniteSets, TLC

\* Largest number of allocated ErrSource values, hence the longest chain.
\* Constructor calls and toggle writes are modelled while the heap holds
\* fewer values than this.
MaxObjs == 2

\* Largest value of the aLines argument (the smallest is -1).
MaxSkip == 3

\* Largest number of New() calls that run concurrently with the toggle
\* writes in one behaviour of SpecConc.
MaxConcCalls == 1

VARIABLES
    NODEBUG,    \* src/sourceerror.go:60
    NOSTACK,    \* src/sourceerror.go:64
    heap,       \* the allocated ErrSource values, by address
    origin,     \* ghost: origin[a] is the aErr argument heap[a] was made from
    last,       \* the most recent call of the package API and its result
    conc        \* the New() call in progress on another goroutine (SpecConc)

vars == <<NODEBUG, NOSTACK, heap, origin, last, conc>>

----------------------------------------------------------------------------
\* Text constants

\* const StringErrSource = "error in source"
StringErrSource == <<"e","r","r","o","r"," ","i","n"," ","s","o","u","r","c","e">>

\* The literal pieces of stringPattern between its verbs.  The pattern is a
\* raw (back-quoted) string: its \n is a backslash followed by the letter n.
PatError == <<"E","r","r","o","r",":"," ">>
PatFile == <<"\\","n","F","i","l","e",":"," ","\"">>
PatColon == <<":">>
PatLine == <<"\"","\\","n","L","i","n","e",":"," ">>
PatFunction == <<"\\","n","F","u","n","c","t","i","o","n",":"," ">>
PatStack == <<"\\","n","S","t","a","c","k",":"," ">>

\* The newline of the interpreted string "%q\n%s" in Error().
NL == <<"\n">>

\* What fmt prints for a nil interface value under %v.
NilText == <<"<","n","i","l",">">>

\* The message of the error made by errors.New("disk full").
DiskFull == <<"d","i","s","k"," ","f","u","l","l">>

----------------------------------------------------------------------------
\* Error values

Nil == [kind |-> "nil", ref |-> 0]

BaseErr(i) == [kind |-> "base", ref |-> i]

Ptr(a) == [kind |-> "ptr", ref |-> a]

\* The messages of the errors the callers make with errors.New().
BaseMsgs == <<DiskFull>>

\* Every error value a caller can pass to New() when the heap is h.
ErrValues(h) ==
    {Nil} \cup {BaseErr(i) : i \in 1..Len(BaseMsgs)} \cup {Ptr(a) : a \in 1..Len(h)}

\* The zero value ErrSource{}.
ZeroErrSource ==
    [err |-> Nil, File |-> <<>>, Function |-> <<>>, Line |-> 0, Stack |-> <<>>]

----------------------------------------------------------------------------
\* The runtime: caller information and stack capture

UserFile == <<"m","a","i","n",".","g","o">>
UserFunc == <<"m","a","i","n",".","f">>
WrapFile == <<"s","o","u","r","c","e","e","r","r","o","r",".","g","o">>
WrapFunc == <<"g","i","t","h","u","b",".","c","o","m","/","m","w","a","t","5","6","/","s","o","u","r","c","e","e","r","r","o","r",".","W","r","a","p">>

\* The line of the call New(aErr, aLines) inside Wrap().
WrapLine == 206

\* runtime.Caller(1) found no caller.
NoCaller == [ok |-> FALSE, pc |-> 0, file |-> <<>>, line |-> 0]

\* The call sites in the code that uses the package.
UserCallers == {[ok |-> TRUE, pc |-> 1, file |-> UserFile, line |-> 2]}

\* What runtime.Caller(1) returns inside New() when New() is called by Wrap().
WrapCaller == [ok |-> TRUE, pc |-> 2, file |-> WrapFile, line |-> WrapLine]

\* runtime.FuncForPC(pc).Name(); Name() of a nil *Func is "".
FuncForPCName(pc) ==
    CASE pc = 1 -> UserFunc
      [] pc = 2 -> WrapFunc
      [] OTHER -> <<>>

\* debug.Stack(): the formatted stack of the calling goroutine, never empty.
DebugStack == <<"g","o","r","o","u","t","i","n","e"," ","1"," ","[","r","u","n","n","i","n","g","]",":","\n">>

\* The values of aLines the callers pass.
Skips == (-1)..MaxSkip

----------------------------------------------------------------------------
\* fmt verbs

Digits == <<"0","1","2","3","4","5","6","7","8","9">>

RECURSIVE FmtNat(_)
FmtNat(n) ==
    IF n < 10 THEN <<Digits[n + 1]>>
    ELSE FmtNat(n \div 10) \o <<Digits[(n % 10) + 1]>>

\* %d of an int
FmtD(n) == IF n < 0 THEN <<"-">> \o FmtNat(-n) ELSE FmtNat(n)

RECURSIVE QuoteBody(_)
QuoteBody(s) ==
    IF s = <<>> THEN <<>>
    ELSE LET c == Head(s)
             e == CASE c = "\"" -> <<"\\","\"">>
                    [] c = "\\" -> <<"\\","\\">>
                    [] c = "\n" -> <<"\\","n">>
                    [] OTHER -> <<c>>
         IN e \o QuoteBody(Tail(s))

\* %q of a string: strconv.Quote
FmtQ(s) == <<"\"">> \o QuoteBody(s) \o <<"\"">>

----------------------------------------------------------------------------
\* ErrSource methods

RECURSIVE Error(_, _)
RECURSIVE primStr(_, _)
RECURSIVE FmtV(_, _)

\* %v of an error value: "<nil>" for a nil interface, else its Error().
FmtV(h, e) ==
    CASE e.kind = "nil" -> NilText
      [] e.kind = "base" -> BaseMsgs[e.ref]
      [] e.kind = "ptr" -> Error(h, h[e.ref])

\* The order the specification describes: the cause rendered last.
primStr_CauseLast(h, se) ==
    <<"F","i","l","e",":"," ","\"">> \o se.File \o PatColon \o FmtD(se.Line)
    \o PatLine \o FmtD(se.Line)
    \o PatFunction \o FmtQ(se.Function)
    \o PatStack \o se.Stack
    \o <<"\\","n">> \o PatError \o FmtV(h, se.err)

\* A rendering that consults NOSTACK when it formats, not New() when it
\* constructs.
primStr_LateToggle(h, se) ==
    PatError \o FmtV(h, se.err)
    \o PatFile \o se.File \o PatColon \o FmtD(se.Line)
    \o PatLine \o FmtD(se.Line)
    \o PatFunction \o FmtQ(se.Function)
    \o PatStack \o (IF NOSTACK THEN <<>> ELSE se.Stack)

primStr(h, se) ==
    PatError \o FmtV(h, se.err)
    \o PatFile \o se.File \o PatColon \o FmtD(se.Line)
    \o PatLine \o FmtD(se.Line)
    \o PatFunction \o FmtQ(se.Function)
    \o PatStack \o se.Stack

Error(h, se) == FmtQ(StringErrSource) \o NL \o primStr(h, se)

\* String() with a format of its own, without the stack.
String_OwnFormat(h, se) ==
    PatError \o FmtV(h, se.err)
    \o PatFile \o se.File \o PatColon \o FmtD(se.Line)
    \o PatLine \o FmtD(se.Line)
    \o PatFunction \o FmtQ(se.Function)

String(h, se) == primStr(h, se)

Unwrap(se) == se.err

----------------------------------------------------------------------------
\* The constructor

\* The adjustment with a strict comparison.
AdjustLine_Strict(eLine, aLines) ==
    IF 0 < aLines /\ eLine > aLines THEN eLine - aLines ELSE eLine

\* if 0 < aLines && eLine >= aLines { eLine -= aLines }
AdjustLine(eLine, aLines) ==
    IF 0 < aLines /\ eLine >= aLines THEN eLine - aLines ELSE eLine

\* The result of a call: the returned error value, the heap after the call,
\* and whether runtime.Caller() and debug.Stack() were called.
Returned(ret, h, cq, sc) ==
    [ret |-> ret, heap |-> h, callerQueried |-> cq, stackCaptured |-> sc]

\* return &ErrSource{...}
Alloc(h, se, cq, sc) == Returned(Ptr(Len(h) + 1), Append(h, se), cq, sc)

\* New() that ignores NODEBUG and always wraps.
New_NoBypass(aErr, aLines, nodebug, nostack, caller, h) ==
    IF ~caller.ok
    THEN Alloc(h, [ZeroErrSource EXCEPT !.err = aErr], TRUE, FALSE)
    ELSE Alloc(h, [err |-> aErr, File |-> caller.file,
                   Function |-> FuncForPCName(caller.pc),
                   Line |-> AdjustLine(caller.line, aLines),
                   Stack |-> IF ~nostack THEN DebugStack ELSE <<>>],
               TRUE, ~nostack)

\* New() that forgets the cause when there is no caller information.
New_DegradeDropsCause(aErr, aLines, nodebug, nostack, caller, h) ==
    IF nodebug THEN Returned(aErr, h, FALSE, FALSE)
    ELSE IF ~caller.ok
         THEN Alloc(h, ZeroErrSource, TRUE, FALSE)
         ELSE Alloc(h, [err |-> aErr, File |-> caller.file,
                        Function |-> FuncForPCName(caller.pc),
                        Line |-> AdjustLine(caller.line, aLines),
                        Stack |-> IF ~nostack THEN DebugStack ELSE <<>>],
                    TRUE, ~nostack)

\* New() that returns the bare cause when there is no caller information.
New_DegradeReturnsCause(aErr, aLines, nodebug, nostack, caller, h) ==
    IF nodebug THEN Returned(aErr, h, FALSE, FALSE)
    ELSE IF ~caller.ok
         THEN Returned(aErr, h, TRUE, FALSE)
         ELSE Alloc(h, [err |-> aErr, File |-> caller.file,
                        Function |-> FuncForPCName(caller.pc),
                        Line |-> AdjustLine(caller.line, aLines),
                        Stack |-> IF ~nostack THEN DebugStack ELSE <<>>],
                    TRUE, ~nostack)

\* New() that looks the function name up only when it captures the stack.
New_StackGatesFunction(aErr, aLines, nodebug, nostack, caller, h) ==
    IF nodebug THEN Returned(aErr, h, FALSE, FALSE)
    ELSE IF ~caller.ok
         THEN Alloc(h, [ZeroErrSource EXCEPT !.err = aErr], TRUE, FALSE)
         ELSE Alloc(h, [err |-> aErr, File |-> caller.file,
                        Function |-> IF ~nostack THEN FuncForPCName(caller.pc)
                                     ELSE <<>>,
                        Line |-> AdjustLine(caller.line, aLines),
                        Stack |-> IF ~nostack THEN DebugStack ELSE <<>>],
                    TRUE, ~nostack)

\* New() that answers nil for a nil cause.
New_NilShortcut(aErr, aLines, nodebug, nostack, caller, h) ==
    IF nodebug \/ aErr = Nil THEN Returned(aErr, h, FALSE, FALSE)
    ELSE IF ~caller.ok
         THEN Alloc(h, [ZeroErrSource EXCEPT !.err = aErr], TRUE, FALSE)
         ELSE Alloc(h, [err |-> aErr, File |-> caller.file,
                        Function |-> FuncForPCName(caller.pc),
                        Line |-> AdjustLine(caller.line, aLines),
                        Stack |-> IF ~nostack THEN DebugStack ELSE <<>>],
                    TRUE, ~nostack)

\* New() that flattens a chain: it wraps the cause of an ErrSource cause.
New_Flatten(aErr, aLines, nodebug, nostack, caller, h) ==
    LET cause == IF aErr.kind = "ptr" THEN h[aErr.ref].err ELSE aErr
    IN IF nodebug THEN Returned(aErr, h, FALSE, FALSE)
       ELSE IF ~caller.ok
            THEN Alloc(h, [ZeroErrSource EXCEPT !.err = cause], TRUE, FALSE)
            ELSE Alloc(h, [err |-> cause, File |-> caller.file,
                           Function |-> FuncForPCName(caller.pc),
                           Line |-> AdjustLine(caller.line, aLines),
                           Stack |-> IF ~nostack THEN DebugStack ELSE <<>>],
                       TRUE, ~nostack)

\* New() that drops the stack of the ErrSource it is given as the cause.
New_MutatesCause(aErr, aLines, nodebug, nostack, caller, h) ==
    LET g == IF aErr.kind = "ptr"
             THEN [h EXCEPT ![aErr.ref].Stack = <<>>] ELSE h
    IN IF nodebug THEN Returned(aErr, g, FALSE, FALSE)
       ELSE IF ~caller.ok
            THEN Alloc(g, [ZeroErrSource EXCEPT !.err = aErr], TRUE, FALSE)
            ELSE Alloc(g, [err |-> aErr, File |-> caller.file,
                           Function |-> FuncForPCName(caller.pc),
                           Line |-> AdjustLine(caller.line, aLines),
                           Stack |-> IF ~nostack THEN DebugStack ELSE <<>>],
                       TRUE, ~nostack)

\* New() that keeps the location of the previous call and adjusts that one.
New_CachedLocation(aErr, aLines, nodebug, nostack, caller, h) ==
    IF nodebug THEN Returned(aErr, h, FALSE, FALSE)
    ELSE IF ~caller.ok
         THEN Alloc(h, [ZeroErrSource EXCEPT !.err = aErr], TRUE, FALSE)
         ELSE LET cached == Len(h) > 0 /\ h[Len(h)].File # <<>>
                  eLine == IF cached THEN h[Len(h)].Line ELSE caller.line
              IN Alloc(h, [err |-> aErr, File |-> caller.file,
                           Function |-> FuncForPCName(caller.pc),
                           Line |-> AdjustLine(eLine, aLines),
                           Stack |-> IF ~nostack THEN DebugStack ELSE <<>>],
                       TRUE, ~nostack)

\* New() that captures the stack first and looks at the toggles afterwards.
New_EagerStack(aErr, aLines, nodebug, nostack, caller, h) ==
    IF nodebug THEN Returned(aErr, h, FALSE, TRUE)
    ELSE IF ~caller.ok
         THEN Alloc(h, [ZeroErrSource EXCEPT !.err = aErr], TRUE, TRUE)
         ELSE Alloc(h, [err |-> aErr, File |-> caller.file,
                        Function |-> FuncForPCName(caller.pc),
                        Line |-> AdjustLine(caller.line, aLines),
                        Stack |-> IF ~nostack THEN DebugStack ELSE <<>>],
                    TRUE, TRUE)

\* New(aErr, aLines) when the toggles are nodebug and nostack, runtime.Caller(1)
\* returns caller and the heap is h.
New(aErr, aLines, nodebug, nostack, caller, h) ==
    IF nodebug THEN Returned(aErr, h, FALSE, FALSE)
    ELSE IF ~caller.ok
         THEN Alloc(h, [ZeroErrSource EXCEPT !.err = aErr], TRUE, FALSE)
         ELSE LET eLine == AdjustLine(caller.line, aLines)
                  eFunction == FuncForPCName(caller.pc)
                  eStack == IF ~nostack THEN DebugStack ELSE <<>>
              IN Alloc(h, [err |-> aErr, File |-> caller.file,
                           Function |-> eFunction, Line |-> eLine,
                           Stack |-> eStack], TRUE, ~nostack)

\* Wrap(aErr, aLines): return New(aErr, aLines); the caller New() sees is Wrap().
Wrap(aErr, aLines, nodebug, nostack, h) ==
    New(aErr, aLines, nodebug, nostack, WrapCaller, h)

----------------------------------------------------------------------------
\* The state machine

NoCall ==
    [op |-> "none", aErr |-> Nil, aLines |-> 0, nodebug |-> FALSE,
     nostack |-> FALSE, site |-> NoCaller, caller |-> NoCaller,
     ret |-> Nil, self |-> 0, text |-> <<>>,
     callerQueried |-> FALSE, stackCaptured |-> FALSE]

\* No New() call is in progress.  pc is the position of the call: "idle",
\* "caller" (before line 169), "nostack" (before line 187) or "done"; base
\* is the size of the heap when the call began; seen is ghost: the pairs
\* <<NODEBUG, NOSTACK>> the toggles held together at some instant of the
\* call so far; calls counts the calls begun.
NoConc ==
    [pc |-> "idle", aErr |-> Nil, aLines |-> 0, site |-> NoCaller,
     base |-> 0, seen |-> {}, calls |-> 0]

Init ==
    /\ NODEBUG = FALSE
    /\ NOSTACK = FALSE
    /\ heap = <<>>
    /\ origin = <<>>
    /\ last = NoCall
    /\ conc = NoConc

\* The effect of a constructor call with result r on heap, origin and last.
Constructed(op, aErr, aLines, site, caller, r) ==
    /\ heap' = r.heap
    /\ origin' = IF Len(r.heap) > Len(heap) THEN Append(origin, aErr) ELSE origin
    /\ last' = [NoCall EXCEPT !.op = op, !.aErr = aErr, !.aLines = aLines,
                              !.nodebug = NODEBUG, !.nostack = NOSTACK,
                              !.site = site, !.caller = caller, !.ret = r.ret,
                              !.callerQueried = r.callerQueried,
                              !.stackCaptured = r.stackCaptured]
    /\ UNCHANGED <<NODEBUG, NOSTACK>>

\* A caller calls New(aErr, aLines) from call site site (or from a context
\* for which the runtime has no caller information).
CallNew ==
    /\ Len(heap) < MaxObjs
    /\ \E aErr \in ErrValues(heap), aLines \in Skips, site \in UserCallers \cup {NoCaller} :
          Constructed("New", aErr, aLines, site, site,
                      New(aErr, aLines, NODEBUG, NOSTACK, site, heap))
    /\ conc' = conc

\* A caller calls the deprecated Wrap(aErr, aLines) from call site site.
CallWrap ==
    /\ Len(heap) < MaxObjs
    /\ \E aErr \in ErrValues(heap), aLines \in Skips, site \in UserCallers :
          Constructed("Wrap", aErr, aLines, site, WrapCaller,
                      Wrap(aErr, aLines, NODEBUG, NOSTACK, heap))
    /\ conc' = conc

\* se.Error() on the ErrSource at address a
CallError ==
    \E a \in 1..Len(heap) :
        /\ last' = [NoCall EXCEPT !.op = "Error", !.self = a,
                                  !.text = Error(heap, heap[a])]
        /\ UNCHANGED <<NODEBUG, NOSTACK, heap, origin, conc>>

\* se.String() on the ErrSource at address a
CallString ==
    \E a \in 1..Len(heap) :
        /\ last' = [NoCall EXCEPT !.op = "String", !.self = a,
                                  !.text = String(heap, heap[a])]
        /\ UNCHANGED <<NODEBUG, NOSTACK, heap, origin, conc>>

\* se.Unwrap() on the ErrSource at address a
CallUnwrap ==
    \E a \in 1..Len(heap) :
        /\ last' = [NoCall EXCEPT !.op = "Unwrap", !.self = a,
                                  !.ret = Unwrap(heap[a])]
        /\ UNCHANGED <<NODEBUG, NOSTACK, heap, origin, conc>>

\* Ghost: while a New() call is in progress, note that the toggles now hold
\* the pair <<nd, ns>>.
Held(c, nd, ns) ==
    IF c.pc \in {"caller", "nostack"}
    THEN [c EXCEPT !.seen = @ \cup {<<nd, ns>>}]
    ELSE c

\* The program assigns to NODEBUG (modelled while a constructor call can
\* still follow the assignment).
SetNODEBUG ==
    /\ Len(heap) < MaxObjs
    /\ \E b \in BOOLEAN :
          /\ NODEBUG' = b
          /\ conc' = Held(conc, b, NOSTACK)
    /\ UNCHANGED <<NOSTACK, heap, origin, last>>

\* The program assigns to NOSTACK (modelled while a constructor call can
\* still follow the assignment).
SetNOSTACK ==
    /\ Len(heap) < MaxObjs
    /\ \E b \in BOOLEAN :
          /\ NOSTACK' = b
          /\ conc' = Held(conc, NODEBUG, b)
    /\ UNCHANGED <<NODEBUG, heap, origin, last>>

Next ==
    \/ CallNew
    \/ CallError
    \/ CallString
    \/ CallUnwrap
    \/ SetNODEBUG
    \/ SetNOSTACK

Spec == Init /\ [][Next]_vars

\* The same program when its callers also use the deprecated Wrap().
NextWrap == Next \/ CallWrap

SpecWrap == Init /\ [][NextWrap]_vars

----------------------------------------------------------------------------
\* New() on one goroutine while another goroutine writes the toggles.  The
\* toggles are plain variables: New() reads NODEBUG (line 163) and NOSTACK
\* (line 187) in two separate unsynchronised steps, and a read that races
\* with writes returns one of the values the variable held during the call.

\* The effect on heap, origin and last of the call in progress returning
\* with result r, having read nd from NODEBUG and acted on ns for NOSTACK.
ConcReturn(r, nd, ns) ==
    /\ heap' = r.heap
    /\ origin' = IF Len(r.heap) > Len(heap) THEN Append(origin, conc.aErr)
                 ELSE origin
    /\ last' = [NoCall EXCEPT !.op = "New", !.aErr = conc.aErr,
                              !.aLines = conc.aLines,
                              !.nodebug = nd, !.nostack = ns,
                              !.site = conc.site, !.caller = conc.site,
                              !.ret = r.ret,
                              !.callerQueried = r.callerQueried,
                              !.stackCaptured = r.stackCaptured]

\* Line 187 testing the wrong toggle.
NostackReads_WrongToggle(c) == {p[1] : p \in c.seen}

\* The values the read of NOSTACK at line 187 can return.
NostackReads(c) == {p[2] : p \in c.seen}

\* Lines 163-166: the call begins and reads NODEBUG; if it is set, New()
\* returns the cause.
ConcNewBegin ==
    /\ conc.pc \in {"idle", "done"}
    /\ conc.calls < MaxConcCalls
    /\ Len(heap) < MaxObjs
    /\ \E aErr \in ErrValues(heap), aLines \in Skips, site \in UserCallers \cup {NoCaller} :
          LET c == [pc |-> "caller", aErr |-> aErr, aLines |-> aLines,
                    site |-> site, base |-> Len(heap),
                    seen |-> {<<NODEBUG, NOSTACK>>}, calls |-> conc.calls + 1]
          IN IF NODEBUG
             THEN /\ conc' = [c EXCEPT !.pc = "done"]
                  /\ heap' = New(aErr, aLines, TRUE, FALSE, site, heap).heap
                  /\ origin' = origin
                  /\ last' = [NoCall EXCEPT !.op = "New", !.aErr = aErr,
                                            !.aLines = aLines, !.nodebug = TRUE,
                                            !.site = site, !.caller = site,
                                            !.ret = New(aErr, aLines, TRUE, FALSE,
                                                        site, heap).ret]
             ELSE /\ conc' = c
                  /\ UNCHANGED <<heap, origin, last>>
    /\ UNCHANGED <<NODEBUG, NOSTACK>>

\* Lines 169-181: runtime.Caller(1); without caller information New()
\* returns the ErrSource that carries only the cause.
ConcNewCaller ==
    /\ conc.pc = "caller"
    /\ IF ~conc.site.ok
       THEN /\ ConcReturn(New(conc.aErr, conc.aLines, FALSE, FALSE,
                              conc.site, heap), FALSE, FALSE)
            /\ conc' = [conc EXCEPT !.pc = "done"]
       ELSE /\ conc' = [conc EXCEPT !.pc = "nostack"]
            /\ UNCHANGED <<heap, origin, last>>
    /\ UNCHANGED <<NODEBUG, NOSTACK>>

\* Lines 184-199: the call reads NOSTACK, captures the stack or not, and
\* returns the new ErrSource.
ConcNewFinish ==
    /\ conc.pc = "nostack"
    /\ \E ns \in NostackReads(conc) :
          ConcReturn(New(conc.aErr, conc.aLines, FALSE, ns, conc.site, heap),
                     FALSE, ns)
    /\ conc' = [conc EXCEPT !.pc = "done"]
    /\ UNCHANGED <<NODEBUG, NOSTACK>>

NextConc ==
    \/ ConcNewBegin
    \/ ConcNewCaller
    \/ ConcNewFinish
    \/ SetNODEBUG
    \/ SetNOSTACK

SpecConc == Init /\ [][NextConc]_vars

----------------------------------------------------------------------------
\* Helpers of the properties

\* The last call was a call of New(), directly or through Wrap().
IsNewCall == last.op \in {"New", "Wrap"}

\* The ErrSource the last call returned a pointer to.
RetObj == heap[last.ret.ref]

\* The last call of New() allocated the ErrSource it returned.
RetIsNew == last.ret.kind = "ptr" /\ last.ret.ref = Len(heap)

----------------------------------------------------------------------------
\* C1: when NODEBUG is true, New(cause, n) returns exactly the cause it was
\* given (the same value, not a wrapper), for every cause including nil,
\* every n, either value of NOSTACK, with or without caller information.
C1_NoDebugReturnsCause ==
    (IsNewCall /\ last.nodebug) => last.ret = last.aErr

\* New() was called with NODEBUG and NOSTACK set, a nil cause and a
\* positive aLines from a context without caller information.
C1_Witness ==
    /\ last.op = "New" /\ last.nodebug /\ last.nostack
    /\ last.aErr = Nil /\ last.aLines > 0 /\ ~last.site.ok
    /\ last.ret = Nil

\* The heap before the last call of New() allocated its result.
HeapBefore == SubSeq(heap, 1, Len(heap) - 1)

HasPrefix(t, p) == Len(p) <= Len(t) /\ SubSeq(t, 1, Len(p)) = p

HasSuffix(t, p) ==
    Len(p) <= Len(t) /\ SubSeq(t, Len(t) - Len(p) + 1, Len(t)) = p

Contains(t, p) ==
    \E i \in 0..(Len(t) - Len(p)) : SubSeq(t, i + 1, i + Len(p)) = p

----------------------------------------------------------------------------
\* C2: when NODEBUG is false, Unwrap() of the value New(cause, n) returns is
\* exactly cause, for a nil, plain or ErrSource cause, every n, either value
\* of NOSTACK, with and without caller information; and the cause of an
\* ErrSource is never replaced or dropped afterwards: Unwrap() of every
\* allocated ErrSource is the cause it was made from.
C2_UnwrapReturnsCause ==
    /\ (IsNewCall /\ ~last.nodebug) =>
           (RetIsNew /\ Unwrap(RetObj) = last.aErr)
    /\ \A a \in 1..Len(heap) : Unwrap(heap[a]) = origin[a]
    /\ last.op = "Unwrap" => last.ret = origin[last.self]

\* New() wrapped an ErrSource cause without caller information.
C2_Witness ==
    /\ last.op = "New" /\ ~last.nodebug /\ ~last.caller.ok
    /\ last.aErr.kind = "ptr"
    /\ RetIsNew /\ Unwrap(RetObj) = last.aErr

----------------------------------------------------------------------------
\* C3: with NODEBUG false and caller information, detected line L and skip n,
\* the reported Line is L - n when 0 < n <= L and L when n <= 0 or n > L.
C3_LineAdjustment ==
    (IsNewCall /\ ~last.nodebug /\ last.caller.ok) =>
        /\ RetIsNew
        /\ (0 < last.aLines /\ last.aLines <= last.caller.line) =>
               RetObj.Line = last.caller.line - last.aLines
        /\ (last.aLines <= 0 \/ last.aLines > last.caller.line) =>
               RetObj.Line = last.caller.line

\* New() was called with a skip equal to the detected line.
C3_Witness ==
    /\ last.op = "New" /\ ~last.nodebug /\ last.caller.ok
    /\ last.aLines = last.caller.line
    /\ RetIsNew /\ RetObj.Line = 0

----------------------------------------------------------------------------
\* C4: whenever New() obtains caller information with a detected line
\* L >= 1, the Line of the returned ErrSource is at least 1, for every skip n.
C4_LinePositive ==
    (IsNewCall /\ ~last.nodebug /\ last.caller.ok /\ last.caller.line >= 1) =>
        (RetIsNew /\ RetObj.Line >= 1)

----------------------------------------------------------------------------
\* C5: with NOSTACK true, NODEBUG false and caller information, New() returns
\* an ErrSource with an empty Stack whose File and Function are not empty and
\* whose File, Function and Line (and cause) are the values the same call
\* yields with NOSTACK false.
C5_NoStackOnlyStack ==
    (IsNewCall /\ ~last.nodebug /\ last.caller.ok /\ last.nostack) =>
        LET withStack == New(last.aErr, last.aLines, FALSE, FALSE,
                             last.caller, HeapBefore)
            other == withStack.heap[Len(withStack.heap)]
        IN /\ RetIsNew
           /\ RetObj.Stack = <<>>
           /\ other.Stack # <<>>
           /\ RetObj.File = other.File /\ RetObj.File # <<>>
           /\ RetObj.Function = other.Function /\ RetObj.Function # <<>>
           /\ RetObj.Line = other.Line
           /\ RetObj.err = other.err

\* New() was called with NOSTACK set and a positive skip from a known caller.
C5_Witness ==
    /\ last.op = "New" /\ ~last.nodebug /\ last.caller.ok /\ last.nostack
    /\ last.aLines = 1
    /\ RetIsNew /\ RetObj.Stack = <<>> /\ RetObj.File = UserFile

----------------------------------------------------------------------------
\* C6: with NODEBUG false and no caller information, New() still wraps: it
\* returns a new ErrSource that carries the cause and nothing else (File and
\* Function empty, Line 0, Stack empty also when NOSTACK is false, the skip
\* ignored); it does not return the bare cause.
C6_DegradePath ==
    (IsNewCall /\ ~last.nodebug /\ ~last.caller.ok) =>
        /\ RetIsNew
        /\ last.ret # last.aErr
        /\ RetObj = [err |-> last.aErr, File |-> <<>>, Function |-> <<>>,
                     Line |-> 0, Stack |-> <<>>]

\* New() was called without caller information, with NOSTACK false, a
\* positive skip and a plain cause.
C6_Witness ==
    /\ last.op = "New" /\ ~last.nodebug /\ ~last.caller.ok
    /\ ~last.nostack /\ last.aLines > 0 /\ last.aErr = BaseErr(1)
    /\ RetIsNew /\ RetObj.Stack = <<>>

----------------------------------------------------------------------------
\* C7: the result of New() is nil only when NODEBUG is true and the cause is
\* nil; with NODEBUG false, New(nil, n) returns a pointer to a new ErrSource
\* whose Unwrap() is nil, with and without caller information.
C7_NilOnlyWhenNoDebug ==
    IsNewCall =>
        /\ last.ret = Nil <=> (last.nodebug /\ last.aErr = Nil)
        /\ (~last.nodebug /\ last.aErr = Nil) =>
               (RetIsNew /\ Unwrap(RetObj) = Nil)

\* New(nil, n) was called with NODEBUG false from a known caller.
C7_Witness ==
    /\ last.op = "New" /\ ~last.nodebug /\ last.caller.ok
    /\ last.aErr = Nil
    /\ RetIsNew /\ Unwrap(RetObj) = Nil

----------------------------------------------------------------------------
\* C8 as claimed: Error() renders the cause last, so the message of an
\* ErrSource that wraps a plain error ends with the text of that error.
C8_CauseLast ==
    (last.op = "Error" /\ heap[last.self].err.kind = "base") =>
        HasSuffix(last.text, BaseMsgs[heap[last.self].err.ref])

\* C8 as amended: Error() renders its parts in the fixed order quoted label,
\* cause, file with line, line, function, stack: the message begins with the
\* quoted label, the text of the cause follows the first "Error: " directly,
\* and the message ends with the "Stack: " field.
C8_FieldOrder ==
    last.op = "Error" =>
        LET se == heap[last.self]
            cause == CASE se.err.kind = "nil" -> <<"<","n","i","l",">">>
                       [] se.err.kind = "base" -> BaseMsgs[se.err.ref]
                       [] se.err.kind = "ptr" -> Error(heap, heap[se.err.ref])
        IN last.text =
               <<"\"">> \o StringErrSource \o <<"\"", "\n">>
               \o <<"E","r","r","o","r",":"," ">> \o cause
               \o <<"\\","n","F","i","l","e",":"," ","\"">>
               \o se.File \o <<":">> \o FmtD(se.Line) \o <<"\"">>
               \o <<"\\","n","L","i","n","e",":"," ">> \o FmtD(se.Line)
               \o <<"\\","n","F","u","n","c","t","i","o","n",":"," ">>
               \o FmtQ(se.Function)
               \o <<"\\","n","S","t","a","c","k",":"," ">> \o se.Stack

\* Error() was called on an ErrSource that wraps errors.New("disk full") and
\* has a file, a function and a stack.
C8_Witness ==
    /\ last.op = "Error"
    /\ heap[last.self].err = BaseErr(1)
    /\ heap[last.self].File # <<>> /\ heap[last.self].Stack # <<>>
    /\ HasPrefix(last.text, FmtQ(StringErrSource))
    /\ HasSuffix(last.text, DebugStack)

----------------------------------------------------------------------------
\* C9: the two textual views agree: String() is the shared rendering
\* primStr(), Error() is the quoted label, a newline and exactly String(),
\* and both contain the text of the cause ("<nil>" for a nil cause) and the
\* same rendering of File, Line, Function and Stack.
C9_ViewsAgree ==
    last.op \in {"Error", "String"} =>
        LET se == heap[last.self]
            str == IF last.op = "String" THEN last.text ELSE String(heap, se)
            msg == IF last.op = "Error" THEN last.text ELSE Error(heap, se)
        IN /\ str = primStr(heap, se)
           /\ msg = FmtQ(StringErrSource) \o NL \o str
           /\ \A part \in {FmtV(heap, se.err),
                           PatFile \o se.File \o PatColon \o FmtD(se.Line),
                           PatLine \o FmtD(se.Line),
                           PatFunction \o FmtQ(se.Function),
                           PatStack \o se.Stack} :
                  Contains(str, part) /\ Contains(msg, part)

\* String() was called on an ErrSource with a nil cause.
C9_Witness ==
    /\ last.op = "String"
    /\ heap[last.self].err = Nil
    /\ Contains(last.text, NilText)
    /\ Error(heap, heap[last.self]) = FmtQ(StringErrSource) \o NL \o last.text

----------------------------------------------------------------------------
\* C10: with NODEBUG false, wrapping an ErrSource keeps the chain: Unwrap()
\* of the outer value is the inner ErrSource itself (its address), the inner
\* value is left as it was, so Unwrap() of it is the cause it was made from,
\* and Error() of the outer value embeds, as its cause text, the whole
\* Error() text of the inner value; at every depth of the chain.
C10_ChainPreserved ==
    /\ (IsNewCall /\ ~last.nodebug /\ last.aErr.kind = "ptr") =>
           /\ RetIsNew
           /\ Unwrap(RetObj) = last.aErr
           /\ last.aErr.ref < last.ret.ref
           /\ Unwrap(heap[Unwrap(RetObj).ref]) = origin[last.aErr.ref]
    /\ \A a \in 1..Len(heap) :
           heap[a].err.kind = "ptr" =>
               /\ heap[a].err = origin[a]
               /\ heap[a].err.ref < a
    /\ (last.op = "Error" /\ heap[last.self].err.kind = "ptr") =>
           LET inner == heap[heap[last.self].err.ref]
           IN HasPrefix(last.text,
                        FmtQ(StringErrSource) \o NL \o PatError
                        \o Error(heap, inner) \o PatFile)

\* Error() was called on an ErrSource that wraps an ErrSource that wraps
\* errors.New("disk full").
C10_Witness ==
    /\ last.op = "Error"
    /\ heap[last.self].err.kind = "ptr"
    /\ heap[heap[last.self].err.ref].err = BaseErr(1)
    /\ Contains(last.text, Error(heap, heap[heap[last.self].err.ref]))

----------------------------------------------------------------------------
\* A step is a call of New() (directly or through Wrap()) that is visible in
\* last.
NewStep == last' # last /\ last'.op \in {"New", "Wrap"}

\* A step is a call of Error(), String() or Unwrap().
MethodStep == last' # last /\ last'.op \in {"Error", "String", "Unwrap"}

\* A step writes a toggle.
ToggleStep == NODEBUG' # NODEBUG \/ NOSTACK' # NOSTACK

\* Every ErrSource allocated before the step is the same after it.
HeapKept ==
    /\ Len(heap') >= Len(heap)
    /\ \A a \in 1..Len(heap) : heap'[a] = heap[a]

----------------------------------------------------------------------------
\* C11: the toggles act at call time only.  The result of each New() call is
\* the one the values of NODEBUG and NOSTACK at that call determine (the
\* cause itself and no allocation when NODEBUG is set, else a new ErrSource
\* whose Stack, with caller information, is empty exactly when NOSTACK is
\* set), and every ErrSource constructed before keeps its cause, File,
\* Function, Line and Stack over every later toggle write and every later
\* New() call; what Error(), String() or Unwrap() returned for it before a
\* toggle write is what the method returns after the write.
C11_TogglesAtCallTime ==
    [][ /\ HeapKept
        /\ (ToggleStep /\ last.op = "Error") =>
               Error(heap, heap[last.self])' = last.text
        /\ (ToggleStep /\ last.op = "String") =>
               String(heap, heap[last.self])' = last.text
        /\ (ToggleStep /\ last.op = "Unwrap") =>
               Unwrap(heap[last.self])' = last.ret
        /\ NewStep =>
               /\ last'.nodebug = NODEBUG /\ last'.nostack = NOSTACK
               /\ IF NODEBUG
                  THEN heap' = heap /\ last'.ret = last'.aErr
                  ELSE /\ Len(heap') = Len(heap) + 1
                       /\ last'.ret = Ptr(Len(heap'))
                       /\ last'.caller.ok =>
                              (heap'[Len(heap')].Stack = <<>> <=> NOSTACK)
      ]_vars

\* An ErrSource constructed with a stack has it, and shows it in Error(),
\* while both toggles are set.
C11_Witness ==
    /\ NODEBUG /\ NOSTACK
    /\ last.op = "Error"
    /\ heap[last.self].Stack # <<>>
    /\ HasSuffix(last.text, DebugStack)

----------------------------------------------------------------------------
----------------------------------------------------------------------------
\* C13: construction is deterministic.  The cause, File, Function and Line of
\* the ErrSource a New() call returns are those of the same call (same call
\* site, cause, skip and toggle values) made as the first call of the
\* program: they do not depend on the calls made or the toggle values held
\* before; so two calls with the same inputs return equal values.
C13_Deterministic ==
    (IsNewCall /\ ~last.nodebug) =>
        LET first == New(last.aErr, last.aLines, last.nodebug, last.nostack,
                         last.caller, <<>>)
            other == first.heap[1]
        IN /\ RetIsNew
           /\ RetObj.err = other.err
           /\ RetObj.File = other.File
           /\ RetObj.Function = other.Function
           /\ RetObj.Line = other.Line

\* Two calls of New() from the same call site with the same cause and a
\* positive skip returned ErrSource values with equal fields.
C13_Witness ==
    /\ Len(heap) = 2 /\ last.op = "New" /\ ~last.nodebug /\ RetIsNew
    /\ last.caller.ok /\ last.aLines = 1
    /\ heap[1].err = heap[2].err
    /\ heap[1].File = heap[2].File /\ heap[1].File # <<>>
    /\ heap[1].Function = heap[2].Function
    /\ heap[1].Line = heap[2].Line

----------------------------------------------------------------------------
\* C14: capture is paid for only when needed.  With NODEBUG set, New() calls
\* neither runtime.Caller() nor debug.Stack() and allocates no ErrSource;
\* debug.Stack() is called in exactly the calls where NODEBUG is false,
\* caller information was obtained and NOSTACK is false.
C14_CaptureOnlyWhenNeeded ==
    [][ NewStep =>
            /\ NODEBUG =>
                   /\ ~last'.callerQueried /\ ~last'.stackCaptured
                   /\ heap' = heap
            /\ ~NODEBUG => last'.callerQueried
            /\ last'.stackCaptured <=>
                   (~NODEBUG /\ last'.caller.ok /\ ~NOSTACK)
      ]_vars

\* New() was called with NODEBUG set from a known call site while an
\* ErrSource exists: nothing was queried or captured.
C14_Witness ==
    /\ last.op = "New" /\ last.nodebug /\ last.site.ok /\ ~last.nostack
    /\ ~last.callerQueried /\ ~last.stackCaptured
    /\ Len(heap) = 1

----------------------------------------------------------------------------
\* C15: Wrap(aErr, aLines) is interchangeable with New(aErr, aLines): called
\* from the same call site with the same toggles, the value Wrap() returns
\* has the cause, File, Function and Line of the value New() returns there,
\* that is the location of the caller of Wrap(), not one inside the package.
C15_WrapLikeNew ==
    (last.op = "Wrap" /\ ~last.nodebug) =>
        LET viaNew == New(last.aErr, last.aLines, last.nodebug, last.nostack,
                          last.site, HeapBefore)
            other == viaNew.heap[Len(viaNew.heap)]
        IN /\ RetIsNew
           /\ RetObj.err = other.err
           /\ RetObj.File = other.File /\ RetObj.File = last.site.file
           /\ RetObj.Function = other.Function
           /\ RetObj.Line = other.Line

----------------------------------------------------------------------------
\* The New() call that has just returned did what a New() call does that
\* runs atomically while the toggles hold the pair p.
Atomic(p) ==
    LET r == New(conc.aErr, conc.aLines, p[1], p[2], conc.site,
                 SubSeq(heap, 1, conc.base))
    IN r.ret = last.ret /\ r.heap = heap

\* C16 as claimed: a New() call that runs concurrently with writes to NODEBUG
\* and NOSTACK behaves as if it had run atomically under a pair of values the
\* two toggles held together at one instant during the call.
C16_ConsistentSnapshot ==
    conc.pc = "done" => \E p \in conc.seen : Atomic(p)

\* C16 as amended: such a call behaves as if it had run atomically under a
\* value NODEBUG held and a value NOSTACK held during the call, each at some
\* instant but not necessarily the same one; when no other pair was held
\* during the call, that is the pair it acts on.
C16_ValuesHeldSeparately ==
    conc.pc = "done" =>
        /\ \E p \in conc.seen : \E q \in conc.seen : Atomic(<<p[1], q[2]>>)
        /\ Cardinality(conc.seen) = 1 => \A p \in conc.seen : Atomic(p)

\* A call read NODEBUG = FALSE, then NODEBUG and NOSTACK were set in this
\* order, and the call returned an ErrSource without a stack: it acted on
\* <<FALSE, TRUE>>, a pair the toggles never held.
C16_Witness ==
    /\ conc.pc = "done" /\ conc.site.ok
    /\ conc.seen = {<<FALSE, FALSE>>, <<TRUE, FALSE>>, <<TRUE, TRUE>>}
    /\ Len(heap) = conc.base + 1
    /\ heap[Len(heap)].Stack = <<>>
    /\ Atomic(<<FALSE, TRUE>>)

====
